---- MODULE Spec2Model ----
(***************************************************************************)
(* A model of the stack VM of wasm-vm-01 / wasm-vm-02: the operand Stack,  *)
(* BlockFrame (control frame), CallFrame and Instance, with one action per *)
(* driver call (CallFrame.step, Instance.step, Instance.callFunction).     *)
(* Program counters and indices are 0-based as in the source; TLA+         *)
(* sequences are 1-based, so instructions[pc] is written At(instrs, pc).   *)
(***************************************************************************)
EXTENDS Integers, Sequences, FiniteSets, TLC

VARIABLES
  vm,         \* the CallFrame driven directly by CallFrame.step (new CallFrame(...))
  callStack,  \* Instance.callStack
  functions,  \* Instance.functions
  globals,    \* Instance.globals
  hasSize,    \* whether the Stack class the build links provides `size`
  err,        \* what the last driver call threw ("none" when it returned)
  last,       \* the instruction the last driver call evaluated, and where
  entered     \* history: for each open block, the enclosing scope at block entry

vars == <<vm, callStack, functions, globals, hasSize, err, last, entered>>

\* ------------------------------------------------------------------ bounds
MaxLen == 5        \* longest generated CallFrame program
MaxFnLen == 2      \* longest generated function body
MaxCallDepth == 3  \* deepest call stack a call may build
MaxVMLen == 3      \* longest generated VM program

\* ------------------------------------------------------------------ values
\* A JS number or undefined, as held in the value field of an I32:
\* [num, over, value]. A finite integer n is over * 2^32 + value with value in
\* MinI32..MaxI32 (over = 0 for every number in the signed 32-bit range), so
\* that sums and products beyond that range are still exact.
MaxI32 == 2147483647
MinI32 == -MaxI32 - 1

Fin(over, value) == [num |-> "int", over |-> over, value |-> value]
NegZero == [num |-> "-0", over |-> 0, value |-> 0]
NaN == [num |-> "NaN", over |-> 0, value |-> 0]
Inf(neg) == [num |-> IF neg THEN "-Infinity" ELSE "Infinity", over |-> 0, value |-> 0]
Zero(neg) == IF neg THEN NegZero ELSE Fin(0, 0)

\* new I32(n) for a JS number n.
I32Num(n) == [type |-> "I32", num |-> n.num, over |-> n.over, value |-> n.value]

\* class I32 { constructor(value) }: an instance with a numeric value.
I32(v) == I32Num(Fin(0, v))

\* new I32() without argument: value is undefined.
I32Empty == [type |-> "I32", num |-> "undefined", over |-> 0, value |-> 0]

\* JS undefined (what Array.pop / Array.at(-1) return on an empty array).
Undefined == [type |-> "undefined", num |-> "undefined", over |-> 0, value |-> 0]

\* An I32 whose value is NaN.
NaNValue == I32Num(NaN)

IsInt(v) == v.type = "I32" /\ v.num = "int"

\* c.value of an I32 c.
NumOf(v) == [num |-> v.num, over |-> v.over, value |-> v.value]

\* ------------------------------------------------------------- JS numbers
\* ToNumber(undefined) is NaN.
IsNaN(n) == n.num \in {"NaN", "undefined"}
IsInf(n) == n.num \in {"Infinity", "-Infinity"}
IsZero(n) == n.num = "-0" \/ (n.num = "int" /\ n.over = 0 /\ n.value = 0)

\* The sign bit.
Negative(n) ==
  \/ n.num \in {"-0", "-Infinity"}
  \/ n.num = "int" /\ (n.over < 0 \/ (n.over = 0 /\ n.value < 0))

\* a + b on finite integers, carrying out of the low 32 bits into over.
WideAdd(a, b) ==
  LET x == a.value
      y == b.value
      up == x >= 0 /\ y > MaxI32 - x
      down == x < 0 /\ y < MinI32 - x
  IN Fin(a.over + b.over + (IF up THEN 1 ELSE IF down THEN -1 ELSE 0),
         IF up THEN (x + MinI32) + (y + MinI32)
         ELSE IF down THEN (x - MinI32) + (y - MinI32)
         ELSE x + y)

WideNeg(a) ==
  IF a.value = MinI32 THEN Fin(1 - a.over, MinI32) ELSE Fin(-a.over, -a.value)

\* -n
JSNeg(n) ==
  IF IsNaN(n) THEN NaN
  ELSE IF IsInf(n) THEN Inf(~Negative(n))
  ELSE IF IsZero(n) THEN Zero(~Negative(n))
  ELSE WideNeg(n)

\* a + b
JSAdd(a, b) ==
  IF IsNaN(a) \/ IsNaN(b) THEN NaN
  ELSE IF IsInf(a) /\ IsInf(b) THEN (IF a.num = b.num THEN a ELSE NaN)
  ELSE IF IsInf(a) THEN a
  ELSE IF IsInf(b) THEN b
  ELSE IF a.num = "-0" /\ b.num = "-0" THEN NegZero
  ELSE WideAdd(a, b)

\* a - b
JSSub(a, b) == JSAdd(a, JSNeg(b))

\* m * p as a wide integer, for p a power of two and b = 2^32 / p.
Shift(m, b, p) ==
  LET mh == m \div b
      ml == m % b
  IN IF 2 * ml >= b THEN Fin(mh + 1, (ml - b) * p) ELSE Fin(mh, ml * p)

\* x * y for x, y in MinI32..MaxI32, from 16-bit halves of x and y.
WideMul(x, y) ==
  LET x1 == x \div 65536
      x0 == x % 65536
      y1 == y \div 65536
      y0 == y % 65536
  IN WideAdd(WideAdd(Fin(x1 * y1, 0),
                     WideAdd(Shift(x1 * y0, 65536, 65536), Shift(x0 * y1, 65536, 65536))),
             WideAdd(Shift(x0 * (y0 \div 256), 16777216, 256),
                     Fin(0, x0 * (y0 % 256))))

\* a * b
JSMul(a, b) ==
  IF IsNaN(a) \/ IsNaN(b) THEN NaN
  ELSE IF (IsInf(a) /\ IsZero(b)) \/ (IsZero(a) /\ IsInf(b)) THEN NaN
  ELSE IF IsInf(a) \/ IsInf(b) THEN Inf(Negative(a) # Negative(b))
  ELSE IF IsZero(a) \/ IsZero(b) THEN Zero(Negative(a) # Negative(b))
  ELSE WideMul(a.value, b.value)

\* x / d rounded toward zero, for d > 0.
PosDiv(x, d) == IF x >= 0 THEN x \div d ELSE (x + (d - 1)) \div d

\* x / y rounded toward zero, for y # 0 (MinI32 / -1 is 2^31).
TruncDiv(x, y) ==
  IF y > 0 THEN Fin(0, PosDiv(x, y))
  ELSE IF y = MinI32 THEN Fin(0, IF x = MinI32 THEN 1 ELSE 0)
  ELSE WideNeg(Fin(0, PosDiv(x, -y)))

\* Math.trunc(a / b)
JSDivTrunc(a, b) ==
  IF IsNaN(a) \/ IsNaN(b) THEN NaN
  ELSE IF IsInf(a) /\ IsInf(b) THEN NaN
  ELSE IF IsInf(a) THEN Inf(Negative(a) # Negative(b))
  ELSE IF IsInf(b) THEN Zero(Negative(a) # Negative(b))
  ELSE IF IsZero(b) THEN (IF IsZero(a) THEN NaN ELSE Inf(Negative(a) # Negative(b)))
  ELSE IF IsZero(a) THEN Zero(Negative(a) # Negative(b))
  ELSE LET q == TruncDiv(a.value, b.value) IN
       IF IsZero(q) THEN Zero(Negative(a) # Negative(b)) ELSE q

\* a === b on numbers and undefined.
JSStrictEq(a, b) ==
  IF a.num = "undefined" \/ b.num = "undefined" THEN a.num = b.num
  ELSE IF IsNaN(a) \/ IsNaN(b) THEN FALSE
  ELSE IF IsZero(a) \/ IsZero(b) THEN IsZero(a) /\ IsZero(b)
  ELSE a = b

\* a < b
JSLess(a, b) ==
  IF IsNaN(a) \/ IsNaN(b) THEN FALSE
  ELSE IF a.num = "-Infinity" THEN b.num # "-Infinity"
  ELSE IF a.num = "Infinity" \/ b.num = "-Infinity" THEN FALSE
  ELSE IF b.num = "Infinity" THEN TRUE
  ELSE a.over < b.over \/ (a.over = b.over /\ a.value < b.value)

\* a <= b
JSLessEq(a, b) == ~IsNaN(a) /\ ~IsNaN(b) /\ ~JSLess(b, a)

\* ------------------------------------------------------------ instructions
Ins(name, imm) == [name |-> name, imm |-> imm]

nop == Ins("nop", 0)
drop == Ins("drop", 0)
block == Ins("block", 0)
loop == Ins("loop", 0)
if_ == Ins("if", 0)
else_ == Ins("else", 0)
end == Ins("end", 0)
br(l) == Ins("br", l)
br_if(l) == Ins("br_if", l)
call(i) == Ins("call", i)
i32_const(v) == Ins("i32.const", v)
i32_add == Ins("i32.add", 0)
i32_sub == Ins("i32.sub", 0)
i32_mul == Ins("i32.mul", 0)
i32_div_s == Ins("i32.div_s", 0)
i32_eq == Ins("i32.eq", 0)
i32_ne == Ins("i32.ne", 0)
i32_lt_s == Ins("i32.lt_s", 0)
i32_gt_s == Ins("i32.gt_s", 0)
i32_le_s == Ins("i32.le_s", 0)
i32_ge_s == Ins("i32.ge_s", 0)

Binops == {"i32.add", "i32.sub", "i32.mul", "i32.div_s"}
Relops == {"i32.eq", "i32.ne", "i32.lt_s", "i32.gt_s", "i32.le_s", "i32.ge_s"}
local_get(i) == Ins("local.get", i)
local_set(i) == Ins("local.set", i)
local_tee(i) == Ins("local.tee", i)
global_get(i) == Ins("global.get", i)
global_set(i) == Ins("global.set", i)

\* instructions[pc]; JS yields undefined outside 0..length-1.
NoInstr == Ins("undefined", 0)
At(instrs, pc) == IF pc >= 0 /\ pc < Len(instrs) THEN instrs[pc + 1] ELSE NoInstr

\* ------------------------------------------------------------------- Stack
Stack_push(bf, v) == [bf EXCEPT !.items = Append(@, v)]

Stack_peek(bf) == IF Len(bf.items) = 0 THEN Undefined ELSE bf.items[Len(bf.items)]

Stack_pop(bf) ==
  IF Len(bf.items) = 0 THEN bf
  ELSE [bf EXCEPT !.items = SubSeq(@, 1, Len(@) - 1)]

\* ------------------------------------------------------------- BlockFrame
BlockFrame(type, breakTargetPc) ==
  [items |-> <<>>, type |-> type, breakTargetPc |-> breakTargetPc]

\* --------------------------------------------------------------- CallFrame
CallFrame(instructions, locals, rootBlockType) ==
  [blocks |-> <<BlockFrame(rootBlockType, Len(instructions) - 1)>>,
   instructions |-> instructions,
   locals |-> locals,
   pc |-> 0]

currentBlock(cf) == cf.blocks[Len(cf.blocks)]

pushFrame(cf, frame) == [cf EXCEPT !.blocks = Append(@, frame)]

popFrame(cf) ==
  IF Len(cf.blocks) = 0 THEN cf
  ELSE [cf EXCEPT !.blocks = SubSeq(@, 1, Len(@) - 1)]

finished(cf) == cf.pc = Len(cf.instructions)

\* An outcome of a method: the frame afterwards, the value returned, the error thrown.
Ok(cf, val) == [cf |-> cf, val |-> val, err |-> "none"]
Throw(cf, e) == [cf |-> cf, val |-> Undefined, err |-> e]

\* CallFrame.push / pop / peek / popI32 delegate to currentBlock, which is
\* undefined (TypeError on the member access) when blocks is empty.
CF_push(cf, v) ==
  IF Len(cf.blocks) = 0 THEN Throw(cf, "TypeError")
  ELSE Ok([cf EXCEPT !.blocks[Len(cf.blocks)] = Stack_push(@, v)], Undefined)

CF_pop(cf) ==
  IF Len(cf.blocks) = 0 THEN Throw(cf, "TypeError")
  ELSE Ok([cf EXCEPT !.blocks[Len(cf.blocks)] = Stack_pop(@)],
          Stack_peek(currentBlock(cf)))

CF_peek(cf) ==
  IF Len(cf.blocks) = 0 THEN Throw(cf, "TypeError")
  ELSE Ok(cf, Stack_peek(currentBlock(cf)))

\* Stack.popType(I32): assertTopIsOfType throws unless peek() instanceof I32.
CF_popI32(cf) ==
  IF Len(cf.blocks) = 0 THEN Throw(cf, "TypeError")
  ELSE IF Stack_peek(currentBlock(cf)).type # "I32" THEN Throw(cf, "ExpectedI32")
  ELSE CF_pop(cf)

\* The scan loops of findMatchingEndPc / findMatchingElsePc: pc += 1, read
\* instructions[pc].name (TypeError past the end), adjust remainingBlocks.
RECURSIVE ScanEnd(_, _, _)
ScanEnd(instrs, pc, remainingBlocks) ==
  IF remainingBlocks <= 0 THEN [ok |-> TRUE, pc |-> pc]
  ELSE IF pc + 1 >= Len(instrs) THEN [ok |-> FALSE, pc |-> pc + 1]
  ELSE LET name == At(instrs, pc + 1).name IN
       IF name = "end" THEN ScanEnd(instrs, pc + 1, remainingBlocks - 1)
       ELSE IF name \in {"block", "loop", "if"}
            THEN ScanEnd(instrs, pc + 1, remainingBlocks + 1)
       ELSE ScanEnd(instrs, pc + 1, remainingBlocks)

findMatchingEndPc(cf) == ScanEnd(cf.instructions, cf.pc, 1)

RECURSIVE ScanElse(_, _, _)
ScanElse(instrs, pc, remainingBlocks) ==
  IF remainingBlocks <= 0 THEN [ok |-> TRUE, pc |-> pc]
  ELSE IF pc + 1 >= Len(instrs) THEN [ok |-> FALSE, pc |-> pc + 1]
  ELSE LET name == At(instrs, pc + 1).name IN
       IF name = "else" THEN ScanElse(instrs, pc + 1, remainingBlocks - 1)
       ELSE IF name = "if" THEN ScanElse(instrs, pc + 1, remainingBlocks + 1)
       ELSE ScanElse(instrs, pc + 1, remainingBlocks)

findMatchingElsePc(cf) == ScanElse(cf.instructions, cf.pc, 1)

\* breakToLabel: popFrame labelidx + 1 times (Array.pop on an empty array
\* returns undefined), then read breakTargetPc of the last one popped.
breakToLabel(cf, labelidx) ==
  LET n == Len(cf.blocks) IN
  IF labelidx + 1 > n THEN Throw([cf EXCEPT !.blocks = <<>>], "TypeError")
  ELSE Ok([cf EXCEPT !.blocks = SubSeq(@, 1, n - labelidx - 1),
                     !.pc = cf.blocks[n - labelidx].breakTargetPc], Undefined)

\* ------------------------------------------------------ instruction bodies
\* What evaluating an instruction does to the frame it runs on and to the
\* globals: [cf, globals, err].
Res(cf, g, e) == [cf |-> cf, globals |-> g, err |-> e]

\* fn(c1, c2) ? 1 : 0 of relop.
RelopFn(name, a, b) ==
  LET holds == CASE name = "i32.eq" -> JSStrictEq(a, b)
                 [] name = "i32.ne" -> ~JSStrictEq(a, b)
                 [] name = "i32.lt_s" -> JSLess(a, b)
                 [] name = "i32.gt_s" -> JSLess(b, a)
                 [] name = "i32.le_s" -> JSLessEq(a, b)
                 [] name = "i32.ge_s" -> JSLessEq(b, a)
  IN Fin(0, IF holds THEN 1 ELSE 0)

\* i32(fn(c1.value, c2.value)) of i32.add, binop and relop, on JS numbers.
BinopFn(name, c1, c2) ==
  LET a == NumOf(c1)
      b == NumOf(c2)
  IN I32Num(CASE name = "i32.add" -> JSAdd(a, b)
              [] name = "i32.sub" -> JSSub(a, b)
              [] name = "i32.mul" -> JSMul(a, b)
              [] name = "i32.div_s" -> JSDivTrunc(a, b)
              [] OTHER -> RelopFn(name, a, b))

\* Mutant of EvalBinop: the value popped first is taken as c1.
EvalBinop_swapped(cf, g, name) ==
  LET r2 == CF_popI32(cf) IN
  IF r2.err # "none" THEN Res(r2.cf, g, r2.err)
  ELSE LET r1 == CF_popI32(r2.cf) IN
       IF r1.err # "none" THEN Res(r1.cf, g, r1.err)
       ELSE LET r == CF_push(r1.cf, BinopFn(name, r2.val, r1.val)) IN
            Res(r.cf, g, r.err)

\* i32.add and binop(...): c2 = popI32(); c1 = popI32(); push(i32(fn(c1, c2))).
EvalBinop(cf, g, name) ==
  LET r2 == CF_popI32(cf) IN
  IF r2.err # "none" THEN Res(r2.cf, g, r2.err)
  ELSE LET r1 == CF_popI32(r2.cf) IN
       IF r1.err # "none" THEN Res(r1.cf, g, r1.err)
       ELSE LET r == CF_push(r1.cf, BinopFn(name, r1.val, r2.val)) IN
            Res(r.cf, g, r.err)

\* assertLocalIndexInRange(table, index) / assertGlobalIndexInRange: the error
\* thrown ("none" when in range). `known` is false when the table is a
\* property the host object does not have (undefined.length is a TypeError).
assertLocalIndexInRange(known, table, index) ==
  IF index < 0 THEN "InvalidLocalIndex"
  ELSE IF ~known THEN "TypeError"
  ELSE IF index >= Len(table) THEN "InvalidLocalIndex"
  ELSE "none"

assertGlobalIndexInRange(known, table, index) ==
  IF index < 0 THEN "InvalidGlobalIndex"
  ELSE IF ~known THEN "TypeError"
  ELSE IF index >= Len(table) THEN "InvalidGlobalIndex"
  ELSE "none"

\* Mutant of EvalLocal: local.tee takes its value with pop instead of peek.
EvalLocal_teePops(host, cf, g, ins) ==
  LET e == assertLocalIndexInRange(host # "Instance", cf.locals, ins.imm) IN
  IF e # "none" THEN Res(cf, g, e)
  ELSE IF ins.name = "local.get"
       THEN LET r == CF_push(cf, cf.locals[ins.imm + 1]) IN Res(r.cf, g, r.err)
  ELSE LET r == CF_pop(cf) IN
       IF r.err # "none" THEN Res(r.cf, g, r.err)
       ELSE Res([r.cf EXCEPT !.locals[ins.imm + 1] = r.val], g, "none")

\* local.get / local.set / local.tee: assertLocalIndexInRange(vm.locals, index),
\* then push(locals[index]), locals[index] = pop(), locals[index] = peek().
EvalLocal(host, cf, g, ins) ==
  LET e == assertLocalIndexInRange(host # "Instance", cf.locals, ins.imm) IN
  IF e # "none" THEN Res(cf, g, e)
  ELSE IF ins.name = "local.get"
       THEN LET r == CF_push(cf, cf.locals[ins.imm + 1]) IN Res(r.cf, g, r.err)
  ELSE IF ins.name = "local.set"
       THEN LET r == CF_pop(cf) IN
            IF r.err # "none" THEN Res(r.cf, g, r.err)
            ELSE Res([r.cf EXCEPT !.locals[ins.imm + 1] = r.val], g, "none")
  ELSE LET r == CF_peek(cf) IN
       IF r.err # "none" THEN Res(r.cf, g, r.err)
       ELSE Res([r.cf EXCEPT !.locals[ins.imm + 1] = r.val], g, "none")

\* global.get checks its index with assertLocalIndexInRange (line 631).
EvalGlobal(host, cf, g, ins) ==
  IF ins.name = "global.get"
  THEN LET e == assertLocalIndexInRange(host = "Instance", g, ins.imm) IN
       IF e # "none" THEN Res(cf, g, e)
       ELSE LET r == CF_push(cf, g[ins.imm + 1]) IN Res(r.cf, g, r.err)
  ELSE LET e == assertGlobalIndexInRange(host = "Instance", g, ins.imm) IN
       IF e # "none" THEN Res(cf, g, e)
       ELSE LET r == CF_pop(cf) IN
            IF r.err # "none" THEN Res(r.cf, g, r.err)
            ELSE Res(r.cf, [g EXCEPT ![ins.imm + 1] = r.val], "none")

\* block: findMatchingEndPc, then pushFrame (which Instance does not have).
EvalBlock(host, cf, g) ==
  LET m == findMatchingEndPc(cf) IN
  IF ~m.ok \/ host # "CallFrame" THEN Res(cf, g, "TypeError")
  ELSE Res(pushFrame(cf, BlockFrame(<<>>, m.pc)), g, "none")

\* Mutant of EvalLoop: the branch target is the loop's own pc, forgetting
\* that step increments pc after the branch.
EvalLoop_targetSelf(host, cf, g) ==
  IF host # "CallFrame" THEN Res(cf, g, "TypeError")
  ELSE Res(pushFrame(cf, BlockFrame(<<>>, cf.pc)), g, "none")

\* loop: pushFrame(new BlockFrame([], vm.pc - 1)).
EvalLoop(host, cf, g) ==
  IF host # "CallFrame" THEN Res(cf, g, "TypeError")
  ELSE Res(pushFrame(cf, BlockFrame(<<>>, cf.pc - 1)), g, "none")

\* end: vm.popFrame().
EvalEnd(host, cf, g) ==
  IF host # "CallFrame" THEN Res(cf, g, "TypeError")
  ELSE Res(popFrame(cf), g, "none")

\* else: frame = vm.popFrame(); vm.pc = frame.breakTargetPc.
EvalElse(host, cf, g) ==
  IF host # "CallFrame" THEN Res(cf, g, "TypeError")
  ELSE IF Len(cf.blocks) = 0 THEN Res(cf, g, "TypeError")
  ELSE Res([popFrame(cf) EXCEPT !.pc = currentBlock(cf).breakTargetPc], g, "none")

\* condValue !== 0 on a JS number.
NonZero(v) == ~(v.num # "undefined" /\ IsZero(NumOf(v)))

\* if: condValue = vm.popI32().value, then the two arms.
EvalIf(host, cf, g) ==
  LET c == CF_popI32(cf) IN
  IF c.err # "none" THEN Res(c.cf, g, c.err)
  ELSE IF NonZero(c.val)
  THEN LET m == findMatchingEndPc(c.cf) IN
       IF ~m.ok \/ host # "CallFrame" THEN Res(c.cf, g, "TypeError")
       ELSE Res(pushFrame(c.cf, BlockFrame(<<>>, m.pc)), g, "none")
  ELSE LET el == findMatchingElsePc(c.cf) IN
       IF ~el.ok THEN Res(c.cf, g, "TypeError")
       ELSE IF host # "CallFrame"
            \* vm.pc = ... sets a property of the Instance, not of the frame
            THEN Res(c.cf, g, "TypeError")
       ELSE LET moved == [c.cf EXCEPT !.pc = el.pc]
                m == findMatchingEndPc(moved) IN
            IF ~m.ok THEN Res(moved, g, "TypeError")
            ELSE Res(pushFrame(moved, BlockFrame(<<>>, m.pc)), g, "none")

\* br: vm.breakToLabel(labelidx).
EvalBr(cf, g, labelidx) ==
  LET r == breakToLabel(cf, labelidx) IN Res(r.cf, g, r.err)

\* The test of br_if: condValue !== 0 where condValue = vm.popI32() is the
\* I32 object, never strictly equal to the number 0.
BrIfTaken(condValue) == TRUE

\* br_if: condValue = vm.popI32(); if (condValue !== 0) breakToLabel(labelidx).
EvalBrIf(cf, g, labelidx) ==
  LET c == CF_popI32(cf) IN
  IF c.err # "none" THEN Res(c.cf, g, c.err)
  ELSE IF BrIfTaken(c.val) THEN EvalBr(c.cf, g, labelidx)
  ELSE Res(c.cf, g, "none")

\* br and br_if on a VM, which has no breakToLabel.
EvalBrVM(cf, g, ins) ==
  IF ins.name = "br" THEN Res(cf, g, "TypeError")
  ELSE LET c == CF_popI32(cf) IN
       Res(c.cf, g, IF c.err # "none" THEN c.err ELSE "TypeError")

\* instruction.eval(vm) for every instruction except call; host says whether
\* vm is a VM (VMLocals), a CallFrame or an Instance (which forwards to its
\* currentFrame cf).
Eval(host, cf, g, ins) ==
  CASE ins.name = "nop" -> Res(cf, g, "none")
    [] ins.name = "i32.const" ->
         LET r == CF_push(cf, I32(ins.imm)) IN Res(r.cf, g, r.err)
    [] ins.name = "drop" -> LET r == CF_pop(cf) IN Res(r.cf, g, r.err)
    [] ins.name \in Binops \cup Relops -> EvalBinop(cf, g, ins.name)
    [] ins.name \in {"local.get", "local.set", "local.tee"} -> EvalLocal(host, cf, g, ins)
    [] ins.name \in {"global.get", "global.set"} -> EvalGlobal(host, cf, g, ins)
    [] ins.name = "block" -> EvalBlock(host, cf, g)
    [] ins.name = "loop" -> EvalLoop(host, cf, g)
    [] ins.name = "if" -> EvalIf(host, cf, g)
    [] ins.name = "else" -> EvalElse(host, cf, g)
    [] ins.name = "end" -> EvalEnd(host, cf, g)
    [] ins.name \in {"br", "br_if"} /\ host = "VM" -> EvalBrVM(cf, g, ins)
    [] ins.name = "br" -> EvalBr(cf, g, ins.imm)
    [] ins.name = "br_if" -> EvalBrIf(cf, g, ins.imm)
    [] OTHER -> Res(cf, g, "TypeError")

\* ---------------------------------------------------------------- programs
\* The instructions without structure that generated programs draw from.
SimpleInstrs == {i32_const(0), i32_const(1), drop, br(0), br(1), br_if(0)}

Openers == {block, loop, if_}

Alphabet == SimpleInstrs \cup Openers \cup {else_, end}

\* Well-nestedness by one left-to-right pass: `open` is the stack of scopes
\* still open ("if" turns into "else" once its else is seen).
RECURSIVE Nested(_, _, _)
Nested(p, i, open) ==
  IF i > Len(p) THEN Len(open) = 0
  ELSE LET name == p[i].name IN
       IF name \in {"block", "loop", "if"} THEN Nested(p, i + 1, Append(open, name))
       ELSE IF name = "end"
            THEN Len(open) > 0 /\ Nested(p, i + 1, SubSeq(open, 1, Len(open) - 1))
       ELSE IF name = "else"
            THEN Len(open) > 0 /\ open[Len(open)] = "if"
                 /\ Nested(p, i + 1, [open EXCEPT ![Len(open)] = "else"])
       ELSE Nested(p, i + 1, open)

WellNested(p) == Nested(p, 1, <<>>)

\* The programs of the tests of wasm-vm-02 that run on a CallFrame.
TestPrograms ==
  { <<block, end>>,
    <<i32_const(5), block, i32_const(10), drop, end, i32_const(20), drop, drop>>,
    <<i32_const(5), block, br(0), i32_const(10), drop, end, i32_const(20), drop, drop>>,
    <<i32_const(5), block, i32_const(1), br_if(0), i32_const(10), drop, end,
      i32_const(20), drop, drop>>,
    <<nop, loop, br(0), end>>,
    <<i32_const(0), if_, i32_const(10), drop, else_, i32_const(20), drop, end>>,
    <<i32_const(1), if_, i32_const(10), drop, else_, i32_const(20), drop, end>>,
    <<i32_const(1), if_, i32_const(1), if_, i32_const(10), drop, else_,
      i32_const(20), drop, end, else_, i32_const(20), drop, end>>,
    <<i32_const(0), if_, i32_const(1), if_, i32_const(10), drop, else_,
      i32_const(20), drop, end, else_, i32_const(20), drop, end>> }


\* Longer well-nested programs: scopes nested three deep, branches out of
\* them, and if without else inside the arms of an if with else.
NestedPrograms ==
  { <<block, i32_const(7), block, i32_const(8), block, br(1), end, end, i32_const(9), end>>,
    <<block, i32_const(1), if_, i32_const(3), br(1), else_, end, i32_const(4), end>>,
    <<block, i32_const(0), if_, else_, i32_const(3), br(1), end, i32_const(4), end>>,
    <<i32_const(1), if_, block, loop, end, end, br(0), else_, end, i32_const(2)>>,
    <<i32_const(0), if_, i32_const(1), if_, end, else_, nop, end>>,
    <<i32_const(1), if_, i32_const(1), if_, end, i32_const(2), else_, nop, end>>,
    <<i32_const(1), if_, i32_const(0), if_, end, else_, end>>,
    <<block, i32_const(1), if_, i32_const(0), if_, end, else_, br(1), end, end>>,
    <<block, i32_const(5), i32_const(1), if_, i32_const(0), if_, end, else_, end, end>>,
    <<i32_const(1), if_, i32_const(1), if_, i32_const(0), if_, end, else_, end,
      else_, end>> }

\* The arms that IfPrograms puts on either side of an else.
Arms ==
  { <<>>, <<nop>>, <<block, end>>, <<loop, end>>, <<block, loop, end, end>>,
    <<i32_const(1), if_, else_, end>>, <<i32_const(0), if_, nop, else_, nop, end>>,
    <<i32_const(1), if_, end>> }

\* if a else b end, after a condition c.
IfPrograms ==
  {<<i32_const(c), if_>> \o a \o <<else_>> \o b \o <<end, nop>> :
     c \in {0, 1}, a \in Arms, b \in Arms}

InitLocals == {<<>>}

\* ------------------------------------------------------------------ history
\* The scopes recorded in `entered` whose control frame still exists.
RECURSIVE Trim(_, _)
Trim(es, depth) ==
  IF Len(es) = 0 \/ es[Len(es)].depth < depth THEN es
  ELSE Trim(SubSeq(es, 1, Len(es) - 1), depth)

Snapshot(op, ins) ==
  [op |-> op, ins |-> ins, vm |-> vm, callStack |-> callStack,
   globals |-> globals, entered |-> entered]

NoCallFrame == CallFrame(<<>>, <<>>, <<>>)

\* ---------------------------------------------------------- CallFrame.step
\* step(): instruction = instructions[pc]; instruction.eval(this); pc += 1.
\* A throw leaves pc as eval left it.
CallFrame_step ==
  LET ins == At(vm.instructions, vm.pc)
      r == Eval("CallFrame", vm, globals, ins)
      after == IF r.err = "none" THEN [r.cf EXCEPT !.pc = @ + 1] ELSE r.cf
      kept == Trim(entered, Len(after.blocks))
  IN /\ vm' = after
     /\ err' = r.err
     /\ last' = Snapshot("CallFrame.step", ins)
     /\ entered' = IF ins.name = "block" /\ r.err = "none"
                   THEN Append(entered,
                               [depth |-> Len(vm.blocks), pc |-> vm.pc,
                                items |-> currentBlock(vm).items])
                   ELSE kept
     /\ UNCHANGED <<callStack, functions, globals, hasSize>>

\* ---------------------------------------------------------------- Instance
Func(args, returns, locals, instructions) ==
  [args |-> args, returns |-> returns, locals |-> locals, instructions |-> instructions]

\* Mutant of MoveArgs: the arguments reach the called frame in the order the
\* caller pushed them.
RECURSIVE MoveArgs_keepOrder(_, _, _)
MoveArgs_keepOrder(callingFrame, calledFrame, n) ==
  IF n = 0 THEN [calling |-> callingFrame, called |-> calledFrame, err |-> "none"]
  ELSE LET p == CF_pop(callingFrame) IN
       IF p.err # "none"
       THEN [calling |-> p.cf, called |-> calledFrame, err |-> p.err]
       ELSE MoveArgs_keepOrder(
              p.cf,
              [calledFrame EXCEPT !.blocks[1].items = <<p.val>> \o @],
              n - 1)

\* The loop of callFunction: value = callingFrame.pop(); calledFrame.push(value).
RECURSIVE MoveArgs(_, _, _)
MoveArgs(callingFrame, calledFrame, n) ==
  IF n = 0 THEN [calling |-> callingFrame, called |-> calledFrame, err |-> "none"]
  ELSE LET p == CF_pop(callingFrame) IN
       IF p.err # "none"
       THEN [calling |-> p.cf, called |-> calledFrame, err |-> p.err]
       ELSE MoveArgs(p.cf, CF_push(calledFrame, p.val).cf, n - 1)

\* callFunction(index) on the call stack cs: [callStack, err].
callFunction(cs, index) ==
  IF index < 0 \/ index >= Len(functions)
  THEN [callStack |-> cs, err |-> "TypeError"]   \* fn is undefined: fn.instructions
  ELSE LET fn == functions[index + 1]
           calledFrame == CallFrame(fn.instructions,
                                    [i \in 1..Len(fn.locals) |-> I32Empty],
                                    <<fn.args, fn.returns>>)
       IN IF Len(fn.args) = 0
          THEN [callStack |-> Append(cs, calledFrame), err |-> "none"]
          ELSE IF Len(cs) = 0
          THEN [callStack |-> cs, err |-> "TypeError"]  \* callingFrame is undefined
          ELSE LET m == MoveArgs(cs[Len(cs)], calledFrame, Len(fn.args))
                   popped == [cs EXCEPT ![Len(cs)] = m.calling]
               IN IF m.err # "none" THEN [callStack |-> popped, err |-> m.err]
                  ELSE [callStack |-> Append(popped, m.called), err |-> "none"]

\* frame.currentBlock.size > 0: Stack (wasm-vm-01) defines no size, so the
\* read yields undefined and the test is false, unless the Stack linked in
\* provides it.
SizePositive(bf) == hasSize /\ Len(bf.items) > 0

\* while (frame.currentBlock.size > 0) { value = frame.pop(); this.currentFrame.push(value) }
RECURSIVE ReturnValues(_, _)
ReturnValues(frame, caller) ==
  IF ~SizePositive(currentBlock(frame)) THEN [caller |-> caller, err |-> "none"]
  ELSE LET p == CF_pop(frame)
           q == CF_push(caller, p.val)
       IN IF q.err # "none" THEN [caller |-> caller, err |-> q.err]
          ELSE ReturnValues(p.cf, q.cf)

\* The tail of Instance.step once eval returned: cs is the call stack with
\* the pc of the frame active before eval already incremented.
PopFinished(cs) ==
  LET frame == cs[Len(cs)]
      rest == SubSeq(cs, 1, Len(cs) - 1)
  IN IF ~finished(frame) THEN [callStack |-> cs, err |-> "none"]
     ELSE IF Len(rest) = 0 THEN [callStack |-> rest, err |-> "none"]
     ELSE IF Len(frame.blocks) = 0 THEN [callStack |-> rest, err |-> "TypeError"]
     ELSE LET t == ReturnValues(frame, rest[Len(rest)]) IN
          [callStack |-> [rest EXCEPT ![Len(rest)] = t.caller], err |-> t.err]

\* Mutant of StepResult: pc += 1 is applied to this.currentFrame read after
\* eval, which is the callee when the instruction was a call.
StepResult_advancesNewFrame ==
  IF Len(callStack) = 0
  THEN [callStack |-> callStack, globals |-> globals, err |-> "TypeError"]
  ELSE LET top == Len(callStack)
           currentFrame == callStack[top]
           ins == At(currentFrame.instructions, currentFrame.pc)
           r == Eval("Instance", currentFrame, globals, ins)
           ev == IF ins.name = "call"
                 THEN LET c == callFunction(callStack, ins.imm) IN
                      [callStack |-> c.callStack, globals |-> globals, err |-> c.err]
                 ELSE [callStack |-> [callStack EXCEPT ![top] = r.cf],
                       globals |-> r.globals, err |-> r.err]
       IN IF ev.err # "none" THEN ev
          ELSE LET f == PopFinished([ev.callStack EXCEPT ![Len(ev.callStack)].pc = @ + 1]) IN
               [callStack |-> f.callStack, globals |-> ev.globals, err |-> f.err]

\* Instance.step() as a function of the state: [callStack, globals, err].
StepResult ==
  IF Len(callStack) = 0
  THEN [callStack |-> callStack, globals |-> globals, err |-> "TypeError"]
  ELSE LET top == Len(callStack)
           currentFrame == callStack[top]
           ins == At(currentFrame.instructions, currentFrame.pc)
           r == Eval("Instance", currentFrame, globals, ins)
           ev == IF ins.name = "call"
                 THEN LET c == callFunction(callStack, ins.imm) IN
                      [callStack |-> c.callStack, globals |-> globals, err |-> c.err]
                 ELSE [callStack |-> [callStack EXCEPT ![top] = r.cf],
                       globals |-> r.globals, err |-> r.err]
       IN IF ev.err # "none" THEN ev
          ELSE LET f == PopFinished([ev.callStack EXCEPT ![top].pc = @ + 1]) IN
               [callStack |-> f.callStack, globals |-> ev.globals, err |-> f.err]

CurrentInstr ==
  IF Len(callStack) = 0 THEN NoInstr
  ELSE At(callStack[Len(callStack)].instructions, callStack[Len(callStack)].pc)

\* A step that would push a frame beyond MaxCallDepth is not taken.
Instance_step ==
  /\ ~(CurrentInstr.name = "call" /\ Len(callStack) >= MaxCallDepth)
  /\ callStack' = StepResult.callStack
  /\ globals' = StepResult.globals
  /\ err' = StepResult.err
  /\ last' = Snapshot("Instance.step", CurrentInstr)
  /\ UNCHANGED <<vm, functions, hasSize, entered>>

\* The driver starts a run: instance.callFunction(index) on an empty call stack.
Instance_callFunction ==
  /\ Len(callStack) = 0
  /\ \E index \in -1..Len(functions) :
       /\ callStack' = callFunction(callStack, index).callStack
       /\ err' = callFunction(callStack, index).err
       /\ last' = Snapshot("callFunction", call(index))
  /\ UNCHANGED <<vm, functions, globals, hasSize, entered>>

\* The instructions function bodies draw from.
FnInstrs == {i32_const(1), i32_add, drop, call(0), call(1)}

I32Type == "I32"

ArgLists == {<<>>, <<I32Type>>, <<I32Type, I32Type>>}

\* The function tables of the tests of wasm-vm-02, calls with two arguments
\* or two results, and calls of a function index outside the table.
TestTables ==
  { <<Func(<<>>, <<>>, <<>>, <<nop>>)>>,
    <<Func(<<>>, <<>>, <<>>, <<call(1)>>), Func(<<>>, <<>>, <<>>, <<nop>>)>>,
    <<Func(<<>>, <<>>, <<>>, <<i32_const(10), call(1)>>),
      Func(<<I32Type>>, <<I32Type>>, <<>>, <<i32_const(5), i32_add>>)>>,
    <<Func(<<>>, <<>>, <<>>, <<i32_const(1), i32_const(2), call(1), nop>>),
      Func(<<I32Type, I32Type>>, <<I32Type>>, <<>>, <<nop>>)>>,
    <<Func(<<>>, <<>>, <<>>, <<i32_const(7), call(1), drop>>),
      Func(<<>>, <<I32Type, I32Type>>, <<>>, <<i32_const(1), i32_const(2)>>)>>,
    <<Func(<<>>, <<>>, <<>>, <<i32_const(1), call(2), nop>>),
      Func(<<>>, <<>>, <<>>, <<i32_const(1), call(-1)>>)>> }

\* The instructions the bodies of functions with locals and globals draw from,
\* with indices inside and outside the tables.
StoreInstrs ==
  {i32_const(42), call(1),
   local_get(0), local_set(0), local_tee(0),
   global_get(0), global_set(0), global_get(1), global_set(1), global_get(-1)}

\* The functions at index 1 of those tables: one reading and one writing the
\* global, one with a parameter and two declared locals.
StoreCallees ==
  { Func(<<>>, <<>>, <<>>, <<global_get(0), nop>>),
    Func(<<>>, <<>>, <<I32Type>>, <<i32_const(7), global_set(0), nop>>),
    Func(<<I32Type>>, <<>>, <<I32Type, I32Type>>, <<local_get(0), nop>>) }

\* instance.globals.push(i32(100)) of the global.get test.
InitGlobals == {<<I32(100)>>}

InitInstance ==
  /\ \/ /\ functions \in TestTables
        /\ globals = <<>>
     \/ /\ \E n0 \in 0..MaxFnLen, n1 \in 0..MaxFnLen :
             \E body0 \in [1..n0 -> FnInstrs], body1 \in [1..n1 -> FnInstrs],
                args1 \in ArgLists :
               functions = <<Func(<<>>, <<>>, <<>>, body0),
                             Func(args1, <<I32Type>>, <<>>, body1)>>
        /\ globals = <<>>
     \/ /\ \E n0 \in 1..(MaxFnLen + 1) :
             \E body0 \in [1..n0 -> StoreInstrs], fn1 \in StoreCallees :
               functions = <<Func(<<>>, <<>>, <<I32Type>>, body0), fn1>>
        /\ globals \in InitGlobals
  /\ hasSize \in BOOLEAN
  /\ callStack = <<>>
  /\ vm = NoCallFrame
  /\ err = "none"
  /\ last = [op |-> "new", ins |-> NoInstr, vm |-> vm, callStack |-> callStack,
             globals |-> globals, entered |-> <<>>]
  /\ entered = <<>>

NextInstance == Instance_callFunction \/ Instance_step

SpecInstance == InitInstance /\ [][NextInstance]_vars

InitCallFrame ==
  /\ \/ \E program \in TestPrograms \cup NestedPrograms \cup IfPrograms,
             locals \in InitLocals :
          vm = CallFrame(program, locals, <<>>)
     \/ \E n \in 1..MaxLen : \E program \in [1..n -> Alphabet], locals \in InitLocals :
          /\ WellNested(program)
          /\ vm = CallFrame(program, locals, <<>>)
  /\ callStack = <<>>
  /\ functions = <<>>
  /\ globals = <<>>
  /\ hasSize = FALSE
  /\ err = "none"
  /\ last = [op |-> "new", ins |-> NoInstr, vm |-> vm, callStack |-> callStack,
             globals |-> globals, entered |-> <<>>]
  /\ entered = <<>>

NextCallFrame == CallFrame_step

SpecCallFrame == InitCallFrame /\ [][NextCallFrame]_vars

\* ---------------------------------------------------------- VM / VMLocals
\* class VM { stack, instructions, pc } and VMLocals { locals }. push, pop,
\* peek and popI32 forward to this.stack as those of CallFrame forward to
\* currentBlock, so this.stack is held as the one element of blocks (its type
\* and breakTargetPc are never read: a VM has none of the control methods).
VMLocals(instructions, locals) ==
  [blocks |-> <<BlockFrame(<<>>, 0)>>,
   instructions |-> instructions,
   locals |-> locals,
   pc |-> 0]

\* Whether the integer arithmetic of the model is the arithmetic of JS numbers
\* (doubles) on a and b: the result is an integer of at most 53 bits.
Exact(name, a, b) ==
  IF a.num # "int" \/ b.num # "int" THEN TRUE
  ELSE CASE name \in {"i32.add", "i32.sub"} ->
              a.over \in -1048576..1048576 /\ b.over \in -1048576..1048576
         [] name = "i32.mul" ->
              /\ a.over = 0 /\ b.over = 0
              /\ \/ a.value \in -65536..65536 \/ b.value \in -65536..65536
                 \/ a.value = MinI32 \/ b.value = MinI32
         [] name = "i32.div_s" -> a.over = 0 /\ b.over = 0
         [] OTHER -> TRUE

\* The operands an arithmetic instruction at pc would pop are ones the model
\* computes exactly.
ExactStep(cf) ==
  LET ins == At(cf.instructions, cf.pc)
      items == currentBlock(cf).items
      n == Len(items)
  IN (ins.name \in Binops /\ n >= 2 /\ items[n].type = "I32" /\ items[n - 1].type = "I32")
       => Exact(ins.name, NumOf(items[n - 1]), NumOf(items[n]))

\* VM.step(): instruction = instructions[pc]; instruction.eval(this); pc += 1.
VM_step ==
  LET ins == At(vm.instructions, vm.pc)
      r == Eval("VM", vm, globals, ins)
  IN /\ ExactStep(vm)
     /\ vm' = IF r.err = "none" THEN [r.cf EXCEPT !.pc = @ + 1] ELSE r.cf
     /\ err' = r.err
     /\ last' = Snapshot("VM.step", ins)
     /\ UNCHANGED <<callStack, functions, globals, hasSize, entered>>

\* The operands of the arithmetic programs: the ends of the signed 32-bit
\* range, zero and its neighbours, and values whose products leave the range.
Operands == {MinI32, -65536, -7, -1, 0, 1, 2, 3, 65536, MaxI32}

ArithInstrs ==
  {i32_add, i32_sub, i32_mul, i32_div_s,
   i32_eq, i32_ne, i32_lt_s, i32_gt_s, i32_le_s, i32_ge_s}

\* const a; const b; op
ArithPrograms ==
  {<<i32_const(a), i32_const(b), op>> : a \in Operands, b \in Operands, op \in ArithInstrs}

\* The result of a division (by zero, or of a negative by a larger number)
\* as an operand of a further operator.
ChainPrograms ==
  {<<i32_const(a), i32_const(b), i32_div_s, i32_const(c), op>> :
     a \in {-1, 0, 1}, b \in {0, 2}, c \in {-1, 0, 1}, op \in ArithInstrs}
  \cup
  {<<i32_const(c), i32_const(a), i32_const(b), i32_div_s, op>> :
     a \in {-1, 0, 1}, b \in {0, 2}, c \in {-1, 0, 1}, op \in ArithInstrs}

\* The programs of the tests of wasm-vm-01 and of the local.* tests.
VMTestPrograms ==
  { <<i32_const(42), i32_const(23), i32_add>>,
    <<i32_const(42), i32_const(23), i32_sub>>,
    <<i32_const(42), i32_const(23), i32_mul>>,
    <<i32_const(42), i32_const(23), i32_div_s>>,
    <<i32_const(3), i32_const(2), i32_mul, i32_const(4), i32_add, i32_const(10), i32_eq>>,
    <<i32_const(42), drop>> }

\* The instructions generated straight-line programs draw from.
StraightInstrs == {i32_const(-7), i32_const(0), i32_const(2)} \cup ArithInstrs

\* The instructions generated programs about locals draw from, with indices
\* inside and outside the locals of VMInitLocals.
LocalInstrs ==
  {i32_const(42), i32_const(7), drop,
   local_get(0), local_get(1), local_set(0), local_set(1), local_tee(0), local_tee(1),
   local_get(2), local_set(2), local_tee(2), local_get(-1), local_set(-1), local_tee(-1)}

VMInitLocals == {<<I32(0)>>, <<I32(100), I32(0)>>}

InitVM ==
  /\ \/ \E program \in ArithPrograms \cup ChainPrograms \cup VMTestPrograms :
          vm = VMLocals(program, <<>>)
     \/ \E n \in 1..MaxVMLen : \E program \in [1..n -> StraightInstrs] :
          vm = VMLocals(program, <<>>)
     \/ \E n \in 1..MaxVMLen : \E program \in [1..n -> LocalInstrs], locals \in VMInitLocals :
          vm = VMLocals(program, locals)
  /\ callStack = <<>>
  /\ functions = <<>>
  /\ globals = <<>>
  /\ hasSize = FALSE
  /\ err = "none"
  /\ last = [op |-> "new", ins |-> NoInstr, vm |-> vm, callStack |-> callStack,
             globals |-> globals, entered |-> <<>>]
  /\ entered = <<>>

NextVM == VM_step

SpecVM == InitVM /\ [][NextVM]_vars

\* ======================================================= lexical structure
\* What the claims mean by "enclosing scope", "matching end" and "matching
\* else", read off the program text alone.

\* The pcs of the block / loop / if instructions whose scope encloses the
\* instruction at pc, outermost first (an end lies inside the scope it closes).
RECURSIVE OpenScan(_, _, _, _)
OpenScan(p, i, open, pc) ==
  IF i >= pc THEN open
  ELSE LET name == At(p, i).name IN
       IF name \in {"block", "loop", "if"} THEN OpenScan(p, i + 1, Append(open, i), pc)
       ELSE IF name = "end" /\ Len(open) > 0
            THEN OpenScan(p, i + 1, SubSeq(open, 1, Len(open) - 1), pc)
       ELSE OpenScan(p, i + 1, open, pc)

OpenAt(p, pc) == OpenScan(p, 0, <<>>, pc)

Closes(p, j, o) == Len(OpenAt(p, j)) > 0 /\ OpenAt(p, j)[Len(OpenAt(p, j))] = o

LexEndPc(p, o) == CHOOSE j \in 0..(Len(p) - 1) : At(p, j).name = "end" /\ Closes(p, j, o)

HasLexElse(p, o) == \E j \in 0..(Len(p) - 1) : At(p, j).name = "else" /\ Closes(p, j, o)

LexElsePc(p, o) == CHOOSE j \in 0..(Len(p) - 1) : At(p, j).name = "else" /\ Closes(p, j, o)

\* Every if of p has its own else.
AllIfsHaveElse(p) ==
  \A o \in 0..(Len(p) - 1) : At(p, o).name = "if" => HasLexElse(p, o)

\* The frame a CallFrame.step started from, and what it evaluated.
Stepped == last.op = "CallFrame.step"
pre == last.vm
prog == last.vm.instructions
TopItems(cf) == currentBlock(cf).items

\* ================================================================== claims

\* C3: br_if(l) pops one i32 condition; a non-zero condition has exactly the
\* effect of br(l), a zero condition pops no control frame and leaves pc at
\* the next instruction.
C3_BrIfCase ==
  /\ Stepped /\ last.ins.name = "br_if"
  /\ Len(pre.blocks) > 0 /\ Len(TopItems(pre)) > 0
  /\ IsInt(Stack_peek(currentBlock(pre)))

C3_BrIf ==
  C3_BrIfCase =>
    LET cond == Stack_peek(currentBlock(pre))
        popped == CF_pop(pre).cf
        asBr == breakToLabel(popped, last.ins.imm)
    IN IF cond.value # 0
       THEN /\ err = asBr.err
            /\ vm = IF asBr.err = "none" THEN [asBr.cf EXCEPT !.pc = @ + 1] ELSE asBr.cf
       ELSE /\ err = "none"
            /\ vm = [popped EXCEPT !.pc = @ + 1]

\* C4: in a well-nested program, br(l) to an enclosing block or if scope pops
\* exactly l + 1 control frames with their values, leaves the remaining
\* frames' operand stacks unchanged and leaves pc just after the scope's end.
C4_Target == OpenAt(prog, pre.pc)[Len(OpenAt(prog, pre.pc)) - last.ins.imm]

C4_BrCase ==
  /\ Stepped /\ last.ins.name = "br"
  /\ WellNested(prog)
  /\ last.ins.imm < Len(OpenAt(prog, pre.pc))
  /\ At(prog, C4_Target).name \in {"block", "if"}

C4_BrPost ==
  /\ err = "none"
  /\ Len(vm.blocks) = Len(pre.blocks) - (last.ins.imm + 1)
  /\ \A k \in 1..Len(vm.blocks) : vm.blocks[k] = pre.blocks[k]
  /\ vm.pc = LexEndPc(prog, C4_Target) + 1

C4_BrToScope == C4_BrCase => C4_BrPost

\* C4 restricted to programs in which every if has an else.
C4_BrToScopeAllElse == (C4_BrCase /\ AllIfsHaveElse(prog)) => C4_BrPost

\* C5: stepping an if that has an else: zero condition leaves pc just after
\* the matching else, non-zero just after the if; the condition is popped
\* and one control frame is pushed whose branch target is the matching end.
C5_IfCase ==
  /\ Stepped /\ last.ins.name = "if"
  /\ WellNested(prog)
  /\ HasLexElse(prog, pre.pc)
  /\ Len(pre.blocks) > 0 /\ Len(TopItems(pre)) > 0
  /\ IsInt(Stack_peek(currentBlock(pre)))

C5_IfPost ==
  LET cond == Stack_peek(currentBlock(pre))
      popped == CF_pop(pre).cf
  IN /\ err = "none"
     /\ vm.pc = IF cond.value = 0 THEN LexElsePc(prog, pre.pc) + 1 ELSE pre.pc + 1
     /\ vm.blocks = Append(popped.blocks, BlockFrame(<<>>, LexEndPc(prog, pre.pc)))

C5_IfElse == C5_IfCase => C5_IfPost

\* C5 restricted to programs in which every if has an else.
C5_IfElseAllElse == (C5_IfCase /\ AllIfsHaveElse(prog)) => C5_IfPost

\* C6: executing else, reached by falling out of the true arm, pops the
\* current control frame and leaves pc just after the matching end.
C6_ElseCase ==
  /\ Stepped /\ last.ins.name = "else"
  /\ WellNested(prog)
  /\ Len(OpenAt(prog, pre.pc)) > 0

C6_ElsePost ==
  LET o == OpenAt(prog, pre.pc)[Len(OpenAt(prog, pre.pc))] IN
  /\ err = "none"
  /\ vm.blocks = SubSeq(pre.blocks, 1, Len(pre.blocks) - 1)
  /\ vm.pc = LexEndPc(prog, o) + 1

C6_Else == C6_ElseCase => C6_ElsePost

\* C6 restricted to programs in which every if has an else.
C6_ElseAllElse == (C6_ElseCase /\ AllIfsHaveElse(prog)) => C6_ElsePost

\* C7: in a program containing loop; br(0); end, every step executing that
\* br(0) leaves pc at the loop; the end after the br is never executed and,
\* once pc is at the loop, it never exceeds the br's index and the frame
\* never becomes finished.
C7_LoopAt(p, i) == At(p, i) = loop /\ At(p, i + 1) = br(0) /\ At(p, i + 2) = end

C7_LoopBr ==
  \A i \in 0..(Len(vm.instructions) - 1) :
    C7_LoopAt(vm.instructions, i) =>
      /\ ~(Stepped /\ pre.pc = i + 2)
      /\ (Stepped /\ pre.pc = i + 1) => (err = "none" /\ vm.pc = i)
      /\ (Stepped /\ pre.pc \in {i, i + 1}) =>
           (err = "none" /\ vm.pc \in {i, i + 1} /\ ~finished(vm))

\* The br(0) of a loop; br(0); end has just been executed and pc is back at
\* the loop, with the loop's control frame popped.
C7_Witness ==
  /\ Stepped /\ last.ins = br(0) /\ err = "none"
  /\ C7_LoopAt(prog, pre.pc - 1)
  /\ vm.pc = pre.pc - 1
  /\ Len(vm.blocks) = Len(pre.blocks) - 1

\* C9: the control-frame stack of a call frame is never empty, whatever
\* steps of a well-nested program have run.
C9_NonEmpty == WellNested(vm.instructions) => Len(vm.blocks) >= 1

\* C10: after the end of a block that contains no branch, the control-frame
\* count is the count before the block and the enclosing operand stack holds
\* exactly what it held when the block was entered.
C10_Entry == last.entered[Len(last.entered)]

C10_BlockEndCase ==
  /\ Stepped /\ last.ins.name = "end" /\ err = "none"
  /\ WellNested(prog)
  /\ Len(last.entered) > 0
  /\ Closes(prog, pre.pc, C10_Entry.pc)
  /\ \A j \in (C10_Entry.pc + 1)..(pre.pc - 1) : At(prog, j).name \notin {"br", "br_if"}

C10_BlockEndPost ==
  /\ Len(vm.blocks) = C10_Entry.depth
  /\ Len(vm.blocks) > 0
  /\ TopItems(vm) = C10_Entry.items

C10_BlockEnd == C10_BlockEndCase => C10_BlockEndPost

\* C10 restricted to programs in which every if has an else.
C10_BlockEndAllElse == (C10_BlockEndCase /\ AllIfsHaveElse(prog)) => C10_BlockEndPost

\* ------------------------------------------------- claims about Instance
IStepped == last.op = "Instance.step"
preStack == last.callStack
preTop == Len(last.callStack)

\* C1: when Instance.step() pops a finished frame and a caller remains, the
\* values left on the finished frame's current control frame are appended
\* to the caller's current control frame in the same bottom-to-top order.
C1_Finished == Eval("Instance", preStack[preTop], last.globals, last.ins).cf

C1_ReturnCase ==
  /\ IStepped /\ err = "none" /\ last.ins.name # "call"
  /\ preTop >= 2 /\ Len(callStack) = preTop - 1
  /\ Len(preStack[preTop - 1].blocks) > 0
  /\ Len(C1_Finished.blocks) > 0

C1_ReturnValuesInOrder ==
  C1_ReturnCase =>
    /\ TopItems(callStack[preTop - 1])
         = TopItems(preStack[preTop - 1]) \o TopItems(C1_Finished)
    /\ Len(callStack[preTop - 1].blocks) = Len(preStack[preTop - 1].blocks)

\* C1 for the case the test of wasm-vm-02 covers (at most one value is left)
\* on a build whose Stack provides size.
C1_ReturnSingleValue ==
  (C1_ReturnCase /\ hasSize /\ Len(TopItems(C1_Finished)) <= 1) =>
    TopItems(callStack[preTop - 1])
      = TopItems(preStack[preTop - 1]) \o TopItems(C1_Finished)

\* C2: callFunction for a function with n parameters removes n values from
\* the calling frame's current control frame and places them, in the order
\* the caller pushed them, into the called frame's locals 0..n-1.
C2_Fn == functions[last.ins.imm + 1]
C2_N == Len(C2_Fn.args)
C2_Items == TopItems(preStack[preTop])
C2_Depth == Len(C2_Items)

C2_CallCase ==
  /\ last.op \in {"Instance.step", "callFunction"} /\ last.ins.name = "call"
  /\ err = "none"
  /\ preTop >= 1 /\ Len(callStack) = preTop + 1
  /\ Len(preStack[preTop].blocks) > 0

C2_ArgsToLocals ==
  (C2_CallCase /\ C2_Depth >= C2_N) =>
    /\ TopItems(callStack[preTop]) = SubSeq(C2_Items, 1, C2_Depth - C2_N)
    /\ Len(callStack[preTop + 1].locals) >= C2_N
    /\ \A k \in 1..C2_N :
         callStack[preTop + 1].locals[k] = C2_Items[C2_Depth - C2_N + k]

\* C2 as amended: the n values are popped one by one from the calling
\* frame's current control frame (undefined once it is empty) and pushed in
\* that order, the caller's top value first, onto the operand stack of the
\* called frame's root control frame; its locals are the declared locals.
C2_ArgsToStack ==
  C2_CallCase =>
    /\ TopItems(callStack[preTop])
         = SubSeq(C2_Items, 1, IF C2_Depth >= C2_N THEN C2_Depth - C2_N ELSE 0)
    /\ Len(callStack[preTop + 1].blocks) = 1
    /\ Len(TopItems(callStack[preTop + 1])) = C2_N
    /\ \A k \in 1..C2_N :
         TopItems(callStack[preTop + 1])[k]
           = IF k <= C2_Depth THEN C2_Items[C2_Depth - k + 1] ELSE Undefined
    /\ Len(callStack[preTop + 1].locals) = Len(C2_Fn.locals)

\* A call of a two-parameter function whose caller pushed two different values.
C2_Witness ==
  /\ C2_CallCase /\ C2_N = 2 /\ C2_Depth >= 2
  /\ C2_Items[C2_Depth] # C2_Items[C2_Depth - 1]
  /\ TopItems(callStack[preTop + 1]) = <<C2_Items[C2_Depth], C2_Items[C2_Depth - 1]>>

\* C8: Instance.step() advances, by one, the pc of the frame that was active
\* before eval and of no other; a call pushes the new frame on top with
\* pc = 0 and a single root control frame; the caller resumes at the
\* instruction after its call once the callee is popped.
C8_StepPc ==
  /\ \A i \in 1..(Len(callStack) - 1) :
       /\ callStack[i].pc >= 1
       /\ At(callStack[i].instructions, callStack[i].pc - 1).name = "call"
  /\ (IStepped /\ preTop > 0) =>
       /\ \A i \in 1..(preTop - 1) :
            i <= Len(callStack) => callStack[i].pc = preStack[i].pc
       /\ Len(callStack) > preTop => callStack[preTop + 1].pc = 0
       /\ (err = "none" /\ Len(callStack) >= preTop
           /\ last.ins.name \notin {"br", "br_if"}) =>
            callStack[preTop].pc = preStack[preTop].pc + 1
       /\ (err = "none" /\ last.ins.name = "call") =>
            LET fn == functions[last.ins.imm + 1] IN
            IF Len(fn.instructions) = 0 THEN Len(callStack) = preTop
            ELSE /\ Len(callStack) = preTop + 1
                 /\ callStack[preTop + 1].instructions = fn.instructions
                 /\ Len(callStack[preTop + 1].blocks) = 1
                 /\ callStack[preTop + 1].blocks[1].breakTargetPc
                      = Len(fn.instructions) - 1
       /\ (err = "none" /\ preTop >= 2 /\ Len(callStack) = preTop - 1) =>
            /\ callStack[preTop - 1].pc = preStack[preTop - 1].pc
            /\ At(callStack[preTop - 1].instructions,
                  callStack[preTop - 1].pc - 1).name = "call"

\* A callee has just been popped and its caller has an instruction to resume at.
C8_Witness ==
  /\ IStepped /\ err = "none"
  /\ preTop >= 2 /\ Len(callStack) = preTop - 1
  /\ ~finished(callStack[preTop - 1])
  /\ At(callStack[preTop - 1].instructions, callStack[preTop - 1].pc - 1).name = "call"

\* The frame a call has just built: by callFunction from the driver or by a
\* call instruction under Instance.step.
CalledCase ==
  /\ last.op \in {"Instance.step", "callFunction"} /\ last.ins.name = "call"
  /\ err = "none"
  /\ Len(callStack) = preTop + 1

CalledFn == functions[last.ins.imm + 1]
CalledFrame == callStack[preTop + 1]

\* C11: the call frame built by callFunction has locals of length
\* len(params) + len(declared locals), and every declared local holds the
\* zero value of its type (an I32 of value 0) before the first instruction runs.
C11_LocalsZero ==
  CalledCase =>
    /\ Len(CalledFrame.locals) = Len(CalledFn.args) + Len(CalledFn.locals)
    /\ \A k \in 1..Len(CalledFn.locals) :
         CalledFrame.locals[Len(CalledFn.args) + k] = I32(0)

\* The frame active when the last Instance.step began, and that frame after
\* the step if it is still on the call stack.
preActive == preStack[preTop]
StillThere == Len(callStack) >= preTop

\* An Instance.step has evaluated local.get / local.set / local.tee with an
\* index inside the active frame's locals (and a value to store).
C12_LocalCase ==
  /\ IStepped /\ preTop >= 1
  /\ last.ins.name \in {"local.get", "local.set", "local.tee"}
  /\ last.ins.imm >= 0 /\ last.ins.imm < Len(preActive.locals)
  /\ Len(preActive.blocks) > 0
  /\ last.ins.name # "local.get" => Len(TopItems(preActive)) > 0

C12_LocalPost ==
  /\ err = "none"
  /\ \A i \in 1..(preTop - 1) : callStack[i].locals = preStack[i].locals
  /\ StillThere =>
       IF last.ins.name = "local.get"
       THEN /\ callStack[preTop].locals = preActive.locals
            /\ Stack_peek(currentBlock(callStack[preTop]))
                 = preActive.locals[last.ins.imm + 1]
       ELSE callStack[preTop].locals
              = [preActive.locals EXCEPT ![last.ins.imm + 1] =
                   Stack_peek(currentBlock(preActive))]

\* An Instance.step has evaluated global.get / global.set with an index
\* inside the globals (and a value to store).
C12_GlobalCase ==
  /\ IStepped /\ preTop >= 1
  /\ last.ins.name \in {"global.get", "global.set"}
  /\ last.ins.imm >= 0 /\ last.ins.imm < Len(last.globals)
  /\ Len(preActive.blocks) > 0
  /\ last.ins.name = "global.set" => Len(TopItems(preActive)) > 0

C12_GlobalPost ==
  /\ err = "none"
  /\ \A i \in 1..Len(callStack) : i <= preTop => callStack[i].locals = preStack[i].locals
  /\ IF last.ins.name = "global.get"
     THEN /\ globals = last.globals
          /\ StillThere =>
               Stack_peek(currentBlock(callStack[preTop])) = last.globals[last.ins.imm + 1]
     ELSE globals = [last.globals EXCEPT ![last.ins.imm + 1] =
                       Stack_peek(currentBlock(preActive))]

\* C12: under Instance.step, local.get / local.set / local.tee of the active
\* frame read and write that frame's locals and leave every other frame's
\* locals unchanged; global.set by any frame writes the one globals table
\* that a later global.get of any frame reads.
C12_LocalsPrivateGlobalsShared ==
  /\ C12_LocalCase => C12_LocalPost
  /\ C12_GlobalCase => C12_GlobalPost

\* The globals half of C12 alone.
C12_GlobalsShared == C12_GlobalCase => C12_GlobalPost

\* A frame other than the one that wrote it reads the value a global.set stored.
C12_GlobalSeenElsewhere ==
  /\ C12_GlobalCase /\ last.ins.name = "global.get" /\ err = "none" /\ StillThere
  /\ preTop = 2
  /\ last.globals[last.ins.imm + 1] = I32(42)

\* An Instance.step has evaluated a local.* (global.*) instruction whose
\* index lies outside the active frame's locals (the globals).
C13_LocalCase ==
  /\ IStepped /\ preTop >= 1
  /\ last.ins.name \in {"local.get", "local.set", "local.tee"}
  /\ (last.ins.imm < 0 \/ last.ins.imm >= Len(preActive.locals))

C13_GlobalCase ==
  /\ IStepped /\ preTop >= 1
  /\ last.ins.name \in {"global.get", "global.set"}
  /\ (last.ins.imm < 0 \/ last.ins.imm >= Len(last.globals))

C13_Unchanged == callStack = preStack /\ globals = last.globals

\* C13: with an index < 0 or >= the length of the table, local.get /
\* local.set / local.tee fail with an invalid-local-index error and
\* global.get / global.set with an invalid-global-index error, and the
\* operand stack, the locals and the globals are unchanged.
C13_InvalidIndex ==
  /\ C13_LocalCase => (err = "InvalidLocalIndex" /\ C13_Unchanged)
  /\ C13_GlobalCase => (err = "InvalidGlobalIndex" /\ C13_Unchanged)

\* C13 for global.set alone, the one of the two global instructions that
\* checks its index with assertGlobalIndexInRange.
C13_GlobalSetIndex ==
  (C13_GlobalCase /\ last.ins.name = "global.set") =>
    (err = "InvalidGlobalIndex" /\ C13_Unchanged)

\* callFunction has been called, by the driver or by a call instruction, with
\* an index outside 0..len(functions)-1.
C14_Case ==
  /\ last.op \in {"Instance.step", "callFunction"} /\ last.ins.name = "call"
  /\ (last.ins.imm < 0 \/ last.ins.imm >= Len(functions))

\* C14: callFunction(index) with index outside 0..len(functions)-1 fails
\* with an invalid-function-index error and leaves the call stack and the
\* caller's operand stack unchanged.
C14_InvalidFunctionIndex ==
  C14_Case => (err = "InvalidFunctionIndex" /\ callStack = preStack)

\* C14 without the kind of the error: the call fails and changes nothing.
C14_FailsUnchanged == C14_Case => (err # "none" /\ callStack = preStack)

\* A call instruction with an index outside the table has been stepped.
C14_Witness == C14_Case /\ IStepped /\ Len(TopItems(preActive)) > 0

\* An Instance.step has evaluated, on an empty current operand stack, an
\* instruction that pops: drop, local.set or global.set with a valid index,
\* or a call of a function that has parameters.
C15_Case ==
  /\ IStepped /\ preTop >= 1
  /\ Len(preActive.blocks) > 0 /\ Len(TopItems(preActive)) = 0
  /\ \/ last.ins.name = "drop"
     \/ /\ last.ins.name = "local.set"
        /\ last.ins.imm >= 0 /\ last.ins.imm < Len(preActive.locals)
     \/ /\ last.ins.name = "global.set"
        /\ last.ins.imm >= 0 /\ last.ins.imm < Len(last.globals)
     \/ /\ last.ins.name = "call"
        /\ last.ins.imm >= 0 /\ last.ins.imm < Len(functions)
        /\ Len(functions[last.ins.imm + 1].args) > 0

\* C15: pop on an empty operand stack fails instead of returning a value:
\* drop, local.set, global.set and the argument popping of callFunction raise
\* an error when the current control frame's stack is empty, and the stack
\* stays empty.
C15_Underflow ==
  C15_Case =>
    /\ err # "none"
    /\ Len(callStack) = preTop
    /\ TopItems(callStack[preTop]) = <<>>

\* ------------------------------------------------------ claims about VM
VStepped == last.op = "VM.step"
preItems == TopItems(last.vm)

\* The operands a binary operator pops: c1 was pushed first, c2 last.
preC1 == preItems[Len(preItems) - 1]
preC2 == preItems[Len(preItems)]

\* A VM.step has evaluated a binary operator on two i32 values of the signed
\* 32-bit range.
BinaryCase ==
  /\ VStepped /\ last.ins.name \in Binops \cup Relops
  /\ Len(preItems) >= 2
  /\ IsInt(preC1) /\ preC1.over = 0
  /\ IsInt(preC2) /\ preC2.over = 0

\* The exact integer a op b, as over * 2^32 + value.
ExactResult(name, a, b) ==
  CASE name = "i32.add" -> WideAdd(Fin(0, a), Fin(0, b))
    [] name = "i32.sub" -> WideAdd(Fin(0, a), WideNeg(Fin(0, b)))
    [] name = "i32.mul" -> WideMul(a, b)
    [] name = "i32.div_s" -> TruncDiv(a, b)

C16_Case ==
  /\ BinaryCase /\ last.ins.name \in Binops
  /\ last.ins.name = "i32.div_s" => preC2.value # 0

C16_Exact == ExactResult(last.ins.name, preC1.value, preC2.value)

\* C16: i32.add, i32.sub and i32.mul push the exact result reduced modulo
\* 2^32 into [-2^31, 2^31 - 1] (two's-complement wraparound); i32.div_s with
\* a non-zero divisor pushes the quotient truncated toward zero.
C16_Wraparound ==
  C16_Case =>
    /\ err = "none"
    /\ Len(TopItems(vm)) = Len(preItems) - 1
    /\ IF last.ins.name = "i32.div_s"
       THEN JSStrictEq(NumOf(Stack_peek(currentBlock(vm))), C16_Exact)
       ELSE Stack_peek(currentBlock(vm)) = I32(C16_Exact.value)

\* C16 where the exact result lies in the signed 32-bit range.
C16_InRange ==
  (C16_Case /\ C16_Exact.over = 0) =>
    /\ err = "none"
    /\ JSStrictEq(NumOf(Stack_peek(currentBlock(vm))), C16_Exact)

\* A VM.step has evaluated i32.div_s with divisor 0.
C17_Case ==
  /\ BinaryCase /\ last.ins.name = "i32.div_s"
  /\ preC2.value = 0

\* C17: i32.div_s with divisor 0 is a fatal error: the step raises an error
\* and pushes no result value onto the operand stack.
C17_DivisionByZero ==
  C17_Case =>
    /\ err # "none"
    /\ vm.pc = last.vm.pc
    /\ Len(TopItems(vm)) <= Len(preItems)
    /\ TopItems(vm) = SubSeq(preItems, 1, Len(TopItems(vm)))

\* What i32.div_s with divisor 0 pushes instead: an I32 whose value is
\* Infinity, -Infinity or NaN by the sign of the dividend.
C17_PushesNonFinite ==
  C17_Case =>
    /\ err = "none"
    /\ Stack_peek(currentBlock(vm))
         = I32Num(IF preC1.value = 0 THEN NaN ELSE Inf(preC1.value < 0))

\* A VM.step has evaluated local.tee(i) with i inside the locals and a
\* non-empty operand stack.
C18_Case ==
  /\ VStepped /\ last.ins.name = "local.tee"
  /\ last.ins.imm >= 0 /\ last.ins.imm < Len(last.vm.locals)
  /\ Len(preItems) > 0

\* A VM.step has popped into a local, with local.set, right after such a
\* local.tee.
C18_PopCase ==
  /\ VStepped /\ last.ins.name = "local.set" /\ err = "none"
  /\ Len(preItems) > 0
  /\ At(last.vm.instructions, last.vm.pc - 1).name = "local.tee"
  /\ At(last.vm.instructions, last.vm.pc - 1).imm >= 0
  /\ At(last.vm.instructions, last.vm.pc - 1).imm < Len(last.vm.locals)

\* C18: local.tee(i) with a valid index and a non-empty stack writes the
\* top-of-stack value to locals[i] and leaves the operand stack unchanged in
\* depth and content, so the pop that follows returns the value the tee stored.
C18_Tee ==
  /\ C18_Case =>
       /\ err = "none"
       /\ TopItems(vm) = preItems
       /\ vm.locals = [last.vm.locals EXCEPT ![last.ins.imm + 1] = preItems[Len(preItems)]]
       /\ vm.pc = last.vm.pc + 1
  /\ C18_PopCase =>
       /\ vm.locals[last.ins.imm + 1]
            = last.vm.locals[At(last.vm.instructions, last.vm.pc - 1).imm + 1]
       /\ TopItems(vm) = SubSeq(preItems, 1, Len(preItems) - 1)

\* local.tee has stored a pushed 42 in a local that held another value, and
\* the 42 is still on top of the stack.
C18_Witness ==
  /\ C18_Case /\ err = "none"
  /\ preItems[Len(preItems)] = I32(42)
  /\ last.vm.locals[last.ins.imm + 1] # I32(42)
  /\ vm.locals[last.ins.imm + 1] = I32(42)
  /\ Stack_peek(currentBlock(vm)) = I32(42)

\* The program is made only of i32.const and binary / relational operators.
StraightLine(p) ==
  \A i \in 1..Len(p) : p[i].name \in {"i32.const"} \cup Binops \cup Relops

\* A VM.step of such a program has evaluated the instruction at pc, an
\* operator finding its two operands on the stack.
C19_Case ==
  /\ VStepped /\ StraightLine(last.vm.instructions)
  /\ last.vm.pc < Len(last.vm.instructions)
  /\ last.ins.name # "i32.const" => Len(preItems) >= 2

Abs(x) == IF x < 0 THEN -x ELSE x

\* op(c1, c2) of the operator called name, on integers.
C19_Op(name, c1, c2) ==
  CASE name = "i32.add" -> c1 + c2
    [] name = "i32.sub" -> c1 - c2
    [] name = "i32.mul" -> c1 * c2
    [] name = "i32.div_s" ->
         IF (c1 < 0) = (c2 < 0) THEN Abs(c1) \div Abs(c2) ELSE -(Abs(c1) \div Abs(c2))
    [] name = "i32.eq" -> IF c1 = c2 THEN 1 ELSE 0
    [] name = "i32.ne" -> IF c1 # c2 THEN 1 ELSE 0
    [] name = "i32.lt_s" -> IF c1 < c2 THEN 1 ELSE 0
    [] name = "i32.gt_s" -> IF c1 > c2 THEN 1 ELSE 0
    [] name = "i32.le_s" -> IF c1 <= c2 THEN 1 ELSE 0
    [] name = "i32.ge_s" -> IF c1 >= c2 THEN 1 ELSE 0

\* The operands are integers small enough for op(c1, c2) to stay in the
\* signed 32-bit range, and the divisor is not 0.
C19_Small ==
  /\ IsInt(preC1) /\ preC1.over = 0 /\ preC1.value \in -32768..32768
  /\ IsInt(preC2) /\ preC2.over = 0 /\ preC2.value \in -32768..32768
  /\ last.ins.name = "i32.div_s" => preC2.value # 0

C19_Example ==
  <<i32_const(3), i32_const(2), i32_mul, i32_const(4), i32_add, i32_const(10), i32_eq>>

\* C19: each VM.step of a program made only of i32.const and binary /
\* relational operators executes the instruction at pc and advances pc by
\* one; an operator replaces the top two values by op(c1, c2), c1 pushed
\* first and c2 last; relational operators push exactly 1 or 0; and the
\* example program has 6 on top after 3 steps, 10 after 5 and [1] after 7.
C19_StraightLine ==
  /\ C19_Case =>
       /\ err = "none"
       /\ vm.pc = last.vm.pc + 1
       /\ vm.instructions = last.vm.instructions
       /\ last.ins = At(last.vm.instructions, last.vm.pc)
       /\ IF last.ins.name = "i32.const"
          THEN TopItems(vm) = Append(preItems, I32(last.ins.imm))
          ELSE /\ Len(TopItems(vm)) = Len(preItems) - 1
               /\ SubSeq(TopItems(vm), 1, Len(preItems) - 2)
                    = SubSeq(preItems, 1, Len(preItems) - 2)
               /\ Stack_peek(currentBlock(vm)).type = "I32"
               /\ last.ins.name \in Relops =>
                    Stack_peek(currentBlock(vm)) \in {I32(0), I32(1)}
               /\ C19_Small =>
                    JSStrictEq(NumOf(Stack_peek(currentBlock(vm))),
                               Fin(0, C19_Op(last.ins.name, preC1.value, preC2.value)))
  /\ (vm.instructions = C19_Example /\ vm.pc = 3) => Stack_peek(currentBlock(vm)) = I32(6)
  /\ (vm.instructions = C19_Example /\ vm.pc = 5) => Stack_peek(currentBlock(vm)) = I32(10)
  /\ (vm.instructions = C19_Example /\ vm.pc = 7) => TopItems(vm) = <<I32(1)>>

\* i32.sub has replaced 42 (pushed first) and 23 (pushed last) by 19.
C19_Witness ==
  /\ C19_Case /\ last.ins = i32_sub
  /\ preC1 = I32(42) /\ preC2 = I32(23)
  /\ TopItems(vm) = <<I32(19)>>
  /\ vm.pc = 3

\* The example program has run its 7 steps and left exactly [1].
C19_ExampleDone ==
  /\ VStepped /\ vm.instructions = C19_Example /\ vm.pc = 7
  /\ TopItems(vm) = <<I32(1)>>

\* No function calls itself, directly or through others: every call in
\* function i names a function after i in the table.
NonRecursive ==
  \A i \in 1..Len(functions) :
    \A k \in 1..Len(functions[i].instructions) :
      functions[i].instructions[k].name = "call" =>
        /\ functions[i].instructions[k].imm > i - 1
        /\ functions[i].instructions[k].imm < Len(functions)

\* C20: for non-recursive functions whose instructions have not failed,
\* between callFunction(i) and the emptying of the call stack every
\* Instance.step() finds an instruction at the active frame's pc: the active
\* frame is never finished when a step begins, also when a call is the last
\* instruction of its caller (so the steps go on until the call stack is empty).
C20_RunToCompletion ==
  (NonRecursive /\ err = "none" /\ Len(callStack) > 0) =>
    ~finished(callStack[Len(callStack)])

\* C20 for functions with a non-empty body: the case of a call that is the
\* last instruction of its caller.
C20_NonEmptyBodies ==
  (\A i \in 1..Len(functions) : Len(functions[i].instructions) > 0) =>
    C20_RunToCompletion

\* C20 for functions in which no call is the last instruction and no body is
\* empty.
C20_NoTailCall ==
  (\A i \in 1..Len(functions) :
     /\ Len(functions[i].instructions) > 0
     /\ functions[i].instructions[Len(functions[i].instructions)].name # "call") =>
    C20_RunToCompletion

\* A CallFrame.step() has just thrown.
C21_Case == last.op = "CallFrame.step" /\ err # "none"

\* C21: when evaluating an instruction raises an error, the step is aborted:
\* the active frame's pc is not advanced and no control frame is pushed or
\* popped (operands popped before the failure stay popped).
C21_ErrorAborts ==
  C21_Case =>
    /\ vm.pc = last.vm.pc
    /\ Len(vm.blocks) = Len(last.vm.blocks)

\* C21 for every instruction but the branches and if: a throwing step leaves
\* pc and the control frames' number alone, and gives no operand back.
C21_NonBranchAborts ==
  (C21_Case /\ last.ins.name \notin {"br", "br_if", "if"}) =>
    /\ vm.pc = last.vm.pc
    /\ Len(vm.blocks) = Len(last.vm.blocks)
    /\ \A i \in 1..Len(vm.blocks) :
         Len(vm.blocks[i].items) <= Len(last.vm.blocks[i].items)

\* C21 under Instance.step: a throwing step leaves the call stack's length,
\* the active frame's pc and its control frames' number alone.
C21_InstanceAborts ==
  (last.op = "Instance.step" /\ err # "none" /\ Len(last.callStack) > 0) =>
    /\ Len(callStack) = Len(last.callStack)
    /\ callStack[Len(callStack)].pc = last.callStack[Len(callStack)].pc
    /\ Len(callStack[Len(callStack)].blocks)
         = Len(last.callStack[Len(callStack)].blocks)

\* A branch whose label index names no control frame has thrown after
\* popping every control frame.
C21_BranchEmptied ==
  C21_Case /\ last.ins.name = "br" /\ Len(last.vm.blocks) > 0 /\ Len(vm.blocks) = 0

\* A well-nested program in which every if has an else, between two steps
\* with an instruction at pc.
C22_Case ==
  /\ WellNested(vm.instructions) /\ AllIfsHaveElse(vm.instructions)
  /\ vm.pc >= 0 /\ vm.pc < Len(vm.instructions)

\* The number of control frames the lexical nesting of the instruction at pc
\* calls for: the root frame and one per enclosing block / loop / if scope.
C22_Depth == 1 + Len(OpenAt(vm.instructions, vm.pc))

\* C22: for a well-nested program in which every if has an else, in every
\* state reached between steps of a CallFrame the number of control frames
\* equals 1 plus the number of block / loop / if scopes lexically enclosing
\* the instruction at pc.
C22_DepthTracksNesting == C22_Case => Len(vm.blocks) = C22_Depth

\* C22 for the states reached by steps that did not throw.
C22_DepthWhileNoError == (C22_Case /\ err = "none") => Len(vm.blocks) = C22_Depth

\* A backward br has brought a loop header back with the depth of its first
\* visit, and an if / else / end has been left at the depth it was entered.
C22_LoopAgain ==
  /\ C22_Case /\ err = "none" /\ Stepped /\ last.ins.name = "br"
  /\ At(vm.instructions, vm.pc).name = "loop" /\ vm.pc <= pre.pc
  /\ Len(vm.blocks) = C22_Depth

C22_IfLeft ==
  /\ C22_Case /\ err = "none" /\ Stepped /\ last.ins.name \in {"else", "end"}
  /\ pre.pc > 0 /\ At(vm.instructions, vm.pc - 1).name = "end"
  /\ \E o \in 0..(vm.pc - 1) :
       At(vm.instructions, o).name = "if" /\ Closes(vm.instructions, vm.pc - 1, o)
  /\ Len(vm.blocks) = C22_Depth

====
